---- MODULE Spec2Model ----
(***************************************************************************)
(* A model of the OCR-to-grid alignment and batching code of               *)
(* ViBERTgrid-PyTorch:                                                     *)
(*   - FUNSDDataset.__getitem__       (src/data/FUNSD_dataset.py)          *)
(*   - FUNSDDataset._ViBERTgrid_coll_func                                  *)
(*   - GeneralizedViBERTgridTransform (src/pipeline/transform.py)          *)
(* Each component has its own specification over its own variables; the    *)
(* variables of the other components stay at their idle values.            *)
(***************************************************************************)
EXTENDS Integers, Sequences, FiniteSets, TLC

VARIABLES
    \* ---- FUNSDDataset.__getitem__ ----
    gpc,              \* position in __getitem__: "idle", "csv", "tok", "done"
    rows,             \* csv_label: the rows read by pd.read_csv
    row_pos,          \* iterator of `for _, row in csv_label.iterrows()`
    ocr_text,         \* ocr_text
    ocr_coor,         \* ocr_coor
    seg_classes,      \* seg_classes
    text_pos,         \* iterator of `for text in ocr_text`
    ocr_tokens,       \* ocr_tokens
    seg_indices,      \* seg_indices
    ocr_coor_,        \* ocr_coor_
    seg_classes_,     \* seg_classes_
    ocr_text_filter,  \* ocr_text_filter
    seg_index,        \* seg_index
    seg_index_filter, \* seg_index_filter
    ocr_corpus,       \* ocr_corpus (ids of ocr_tokens), set on return
    \* ---- FUNSDDataset._ViBERTgrid_coll_func ----
    cpc,              \* position in the collate function: "idle", "collect", "done"
    samples,          \* samples: the ocr_corpus (item[4]) of every item
    coll_pos,         \* iterator of `for item in samples`
    coll_corpus,      \* the list ocr_corpus built by the loop
    padded_corpus,    \* ocr_corpus after pad_sequence
    mask,             \* mask
    \* ---- GeneralizedViBERTgridTransform.resize_and_convert ----
    rpc,              \* position: "idle", "start", "image", "labels", "done", "error"
    rerr,             \* the exception raised ("none" when there is none)
    training,         \* self.training
    train_min_size_list, \* self.train_min_size_list
    test_min_size,    \* self.test_min_size
    max_size,         \* self.max_size
    num_classes,      \* self.num_classes
    image_shape,      \* image.shape[-2:] of the input image, << H, W >>
    labels_given,     \* FALSE when class_label and pos_neg_label are None
    class_label,      \* class_label as passed in: rows of integers
    pos_neg_label,    \* pos_neg_label as passed in
    coor,             \* coor as passed in: a list of [left, top, right, bottom]
    class_label_r,    \* class_label as returned by _resize_labels
    pos_neg_label_r,  \* pos_neg_label as returned by _resize_labels
    coor_r,           \* coor as returned by _resize_labels
    class_label_oh,   \* class_label after F.one_hot(...).permute(2, 0, 1)
    pos_neg_label_oh, \* pos_neg_label after F.one_hot(...).permute(2, 0, 1)
    size,             \* size (the minimum edge chosen)
    scale_factor,     \* scale_factor of _resize_image, a fraction << num, den >>
    resize_shape,     \* image.shape[-2:] after _resize_image, << H', W' >>
    \* ---- GeneralizedViBERTgridTransform.return_batch ----
    bpc,              \* position: "idle", "start", "copy", "done", "error"
    berr,             \* the exception raised ("none" when there is none)
    images,           \* images: a list of tensors [C][H][W]
    class_labels,     \* class_labels: a list of tensors [K][H][W]
    pos_neg_labels,   \* pos_neg_labels: a list of tensors [P][H][W]
    size_divisible,   \* size_divisible
    batch_max_size,   \* max_size: << C, H*, W* >>
    batch_pos,        \* iterator of the zip(...) loop
    batched_imgs,     \* batched_imgs
    batched_class_labels,   \* batched_class_labels
    batched_pos_neg_labels  \* batched_pos_neg_labels

\* quad_to_box (ocr_data.py)
VARIABLES
    qpc,              \* position in quad_to_box
    quad,             \* quad: the corners x1, y1 (top-left) and x3, y3 (bottom-right)
    box               \* box

\* GeneralizedViBERTgridTransform.forward (transform.py)
VARIABLES
    fpc,              \* position in forward
    ferr,             \* the exception raised ("none" when there is none)
    self,             \* the transform: training, train_min_size_list,
                      \* test_min_size, max_size, num_classes
    f_samples,        \* the samples handed in: image shape, label maps, boxes
    f_images,         \* images: the shape of every image, resized ones in place
    f_i,              \* i of `for i in range(len(images))`
    f_sizes,          \* size of resize_and_convert, one per sample processed
    image_sizes,      \* image_sizes
    f_batched,        \* shape of the batched images return_batch returned
    image_list        \* image_list: the shape of its tensors and its image_sizes

\* EPHOIE_postprocessing (inference_EPHOIE.py)
VARIABLES
    epc,              \* position in EPHOIE_postprocessing
    e_pred_class,     \* argmax of pred_label[seg_index], one class per segment
    e_num_classes,    \* num_classes
    e_ocr_text,       \* ocr_text[0]: the text of every segment
    e_seg_index,      \* seg_index of the loop (1-based)
    pred_all_list,    \* pred_all_list: per class the (text, segment count) recorded
    curr_class_str,   \* curr_class_str
    curr_class_seg_len,   \* curr_class_seg_len
    prev_class,       \* prev_class
    pred_results      \* pred_results

\* cosine_scheduler (train_val_utils.py)
VARIABLES
    spc,              \* position in cosine_scheduler
    serr,             \* the exception raised ("none" when there is none)
    epoches,          \* epoches
    niter_per_ep,     \* niter_per_ep
    warmup_epochs,    \* warmup_epochs
    warmup_steps,     \* warmup_steps
    warmup_iters,     \* warmup_iters
    warmup_schedule,  \* warmup_schedule: its entries by position
    schedule          \* schedule: its entries by position

getitemVars == << gpc, rows, row_pos, ocr_text, ocr_coor, seg_classes, text_pos,
                  ocr_tokens, seg_indices, ocr_coor_, seg_classes_,
                  ocr_text_filter, seg_index, seg_index_filter, ocr_corpus >>

collVars == << cpc, samples, coll_pos, coll_corpus, padded_corpus, mask >>

resizeVars == << rpc, rerr, training, train_min_size_list, test_min_size, max_size,
                 num_classes, image_shape, labels_given, class_label,
                 pos_neg_label, coor, class_label_r, pos_neg_label_r, coor_r,
                 class_label_oh, pos_neg_label_oh, size, scale_factor,
                 resize_shape >>

batchVars == << bpc, berr, images, class_labels, pos_neg_labels, size_divisible,
                batch_max_size, batch_pos, batched_imgs, batched_class_labels,
                batched_pos_neg_labels >>

quadVars == << qpc, quad, box >>

schedulerVars == << spc, serr, epoches, niter_per_ep, warmup_epochs, warmup_steps,
                   warmup_iters, warmup_schedule, schedule >>

ephoieVars == << epc, e_pred_class, e_num_classes, e_ocr_text, e_seg_index,
                pred_all_list, curr_class_str, curr_class_seg_len, prev_class,
                pred_results >>

forwardVars == << fpc, ferr, self, f_samples, f_images, f_i, f_sizes, image_sizes,
                 f_batched, image_list >>

vars == << getitemVars, collVars, resizeVars, batchVars, quadVars, forwardVars, ephoieVars, schedulerVars >>

(***************************************************************************)
(* Bounds of the model.                                                    *)
(***************************************************************************)
MaxRows == 3
MaxBatch == 2
MaxSeqLen == 2
MaxDim == 4
MaxBoxes == 2
MaxCoord == 2
MaxSegments == 3
MaxEpochs == 2
MaxIterPerEp == 2

(***************************************************************************)
(* Helpers.                                                                *)
(***************************************************************************)
SeqMax(s) == CHOOSE m \in {s[i] : i \in 1..Len(s)} : \A i \in 1..Len(s) : s[i] <= m

RECURSIVE Flatten(_)
Flatten(ss) == IF ss = << >> THEN << >> ELSE Head(ss) \o Flatten(Tail(ss))

(***************************************************************************)
(* Text values.  A text is a sequence of characters.  " " is a whitespace  *)
(* character, "ctl" stands for a control character such as \x00 (not       *)
(* whitespace for str.isspace, removed by the tokenizer's text cleaning),  *)
(* "PAD" stands for the literal substring "[PAD]", which the tokenizer     *)
(* never splits.  A cell of the csv is either a string or NaN (what        *)
(* pandas gives for an empty field).                                       *)
(***************************************************************************)
StrCell(s) == [kind |-> "str", s |-> s]
NaNCell == [kind |-> "nan", s |-> << >>]

TextSamples ==
    { << >>, << " " >>, << " ", " " >>, << "a" >>, << "a", "b" >>,
      << "a", " ", "b" >>, << "ctl" >>, << "PAD" >> }

CellSamples == { StrCell(s) : s \in TextSamples } \cup { NaNCell }

\* str(row["text"])
Str(cell) == IF cell.kind = "nan" THEN << "n", "a", "n" >> ELSE cell.s

\* row["text"] == "" or row["text"] == " "
IsBlankCell(cell) == cell.kind = "str" /\ (cell.s = << >> \/ cell.s = << " " >>)

\* a plausible slip: any whitespace character makes the text blank
IsSpace_Any(text) == \E i \in 1..Len(text) : text[i] = " "

\* str.isspace(): at least one character and all of them whitespace
IsSpace(text) == Len(text) > 0 /\ \A i \in 1..Len(text) : text[i] = " "

(***************************************************************************)
(* The tokenizer (BertTokenizer): clean the text (drop control            *)
(* characters), split on whitespace, split each word into word pieces.     *)
(***************************************************************************)
Cont == [c \in {"a", "b", "n"} |->
            IF c = "a" THEN "##a" ELSE IF c = "b" THEN "##b" ELSE "##n"]

\* the vocabulary in file order: line 0 of a BERT vocabulary is [PAD]
Vocab == << "[PAD]", "[UNK]", "a", "b", "n", "##a", "##b", "##n" >>

CleanText(text) == SelectSeq(text, LAMBDA c : c # "ctl")

RECURSIVE WhitespaceSplit(_, _)
\* words of `text`; `cur` is the word being read
WhitespaceSplit(text, cur) ==
    IF text = << >> THEN (IF cur = << >> THEN << >> ELSE << cur >>)
    ELSE IF Head(text) = " "
         THEN (IF cur = << >> THEN << >> ELSE << cur >>) \o WhitespaceSplit(Tail(text), << >>)
         ELSE WhitespaceSplit(Tail(text), Append(cur, Head(text)))

WordPieces(word) ==
    IF word = << "PAD" >> THEN << "[PAD]" >>
    ELSE IF \E i \in 1..Len(word) : word[i] = "PAD" THEN << "[UNK]" >>
    ELSE [i \in 1..Len(word) |-> IF i = 1 THEN word[i] ELSE Cont[word[i]]]

Tokenize(text) ==
    LET words == WhitespaceSplit(CleanText(text), << >>)
    IN  Flatten([i \in 1..Len(words) |-> WordPieces(words[i])])

TokenId(tok) == (CHOOSE i \in 1..Len(Vocab) : Vocab[i] = tok) - 1

ConvertTokensToIds(toks) == [i \in 1..Len(toks) |-> TokenId(toks[i])]

(***************************************************************************)
(* Idle values of the variables of the components a specification does not *)
(* run.                                                                    *)
(***************************************************************************)
CollIdle ==
    /\ cpc = "idle"
    /\ samples = << >>
    /\ coll_pos = 1
    /\ coll_corpus = << >>
    /\ padded_corpus = << >>
    /\ mask = << >>

ResizeIdle ==
    /\ rpc = "idle"
    /\ rerr = "none"
    /\ training = FALSE
    /\ train_min_size_list = << >>
    /\ test_min_size = 0
    /\ max_size = 0
    /\ num_classes = 0
    /\ image_shape = << 0, 0 >>
    /\ labels_given = FALSE
    /\ class_label = << >>
    /\ pos_neg_label = << >>
    /\ coor = << >>
    /\ class_label_r = << >>
    /\ pos_neg_label_r = << >>
    /\ coor_r = << >>
    /\ class_label_oh = << >>
    /\ pos_neg_label_oh = << >>
    /\ size = 0
    /\ scale_factor = << 0, 1 >>
    /\ resize_shape = << 0, 0 >>

BatchIdle ==
    /\ bpc = "idle"
    /\ berr = "none"
    /\ images = << >>
    /\ class_labels = << >>
    /\ pos_neg_labels = << >>
    /\ size_divisible = 0
    /\ batch_max_size = << >>
    /\ batch_pos = 1
    /\ batched_imgs = << >>
    /\ batched_class_labels = << >>
    /\ batched_pos_neg_labels = << >>

QuadIdle ==
    /\ qpc = "idle"
    /\ quad = << >>
    /\ box = << >>

SchedulerIdle ==
    /\ spc = "idle"
    /\ serr = "none"
    /\ epoches = 0
    /\ niter_per_ep = 0
    /\ warmup_epochs = 0
    /\ warmup_steps = -1
    /\ warmup_iters = 0
    /\ warmup_schedule = << >>
    /\ schedule = << >>

EphoieIdle ==
    /\ epc = "idle"
    /\ e_pred_class = << >>
    /\ e_num_classes = 0
    /\ e_ocr_text = << >>
    /\ e_seg_index = 1
    /\ pred_all_list = << >>
    /\ curr_class_str = << >>
    /\ curr_class_seg_len = 0
    /\ prev_class = -1
    /\ pred_results = << >>

ForwardIdle ==
    /\ fpc = "idle"
    /\ ferr = "none"
    /\ self = << >>
    /\ f_samples = << >>
    /\ f_images = << >>
    /\ f_i = 1
    /\ f_sizes = << >>
    /\ image_sizes = << >>
    /\ f_batched = << >>
    /\ image_list = << >>

notGetItemVars == << collVars, resizeVars, batchVars, quadVars, forwardVars, ephoieVars, schedulerVars >>
NotGetItemIdle == CollIdle /\ ResizeIdle /\ BatchIdle /\ QuadIdle /\ ForwardIdle /\ EphoieIdle /\ SchedulerIdle

(***************************************************************************)
(* FUNSDDataset.__getitem__                                                *)
(***************************************************************************)
\* Row r of the csv: its box and class are told apart by the row number.
RowBox(r) == << 10 * r, 10 * r + 1, 10 * r + 5, 10 * r + 7 >>
RowClass(r) == r % 7

MkRow(r, cell) ==
    [text |-> cell, left |-> RowBox(r)[1], top |-> RowBox(r)[2],
     right |-> RowBox(r)[3], bot |-> RowBox(r)[4], data_class |-> RowClass(r)]

CsvFiles ==
    UNION { { [r \in 1..n |-> MkRow(r, cells[r])] : cells \in [1..n -> CellSamples] }
            : n \in 0..MaxRows }

GetItemIdle ==
    /\ gpc = "idle"
    /\ rows = << >>
    /\ row_pos = 1
    /\ ocr_text = << >>
    /\ ocr_coor = << >>
    /\ seg_classes = << >>
    /\ text_pos = 1
    /\ ocr_tokens = << >>
    /\ seg_indices = << >>
    /\ ocr_coor_ = << >>
    /\ seg_classes_ = << >>
    /\ ocr_text_filter = << >>
    /\ seg_index = 0
    /\ seg_index_filter = 0
    /\ ocr_corpus = << >>

GetItemInit ==
    /\ NotGetItemIdle
    /\ gpc = "csv"
    /\ rows \in CsvFiles
    /\ row_pos = 1
    /\ ocr_text = << >>
    /\ ocr_coor = << >>
    /\ seg_classes = << >>
    /\ text_pos = 1
    /\ ocr_tokens = << >>
    /\ seg_indices = << >>
    /\ ocr_coor_ = << >>
    /\ seg_classes_ = << >>
    /\ ocr_text_filter = << >>
    /\ seg_index = 0
    /\ seg_index_filter = 0
    /\ ocr_corpus = << >>

\* one iteration of `for _, row in csv_label.iterrows()`
ReadRow ==
    /\ gpc = "csv"
    /\ row_pos <= Len(rows)
    /\ LET row == rows[row_pos] IN
         IF IsBlankCell(row.text)
         THEN UNCHANGED << ocr_text, ocr_coor, seg_classes >>
         ELSE /\ ocr_text' = Append(ocr_text, Str(row.text))
              /\ ocr_coor' = Append(ocr_coor, << row.left, row.top, row.right, row.bot >>)
              /\ seg_classes' = Append(seg_classes, row.data_class)
    /\ row_pos' = row_pos + 1
    /\ UNCHANGED << gpc, rows, text_pos, ocr_tokens, seg_indices, ocr_coor_,
                    seg_classes_, ocr_text_filter, seg_index, seg_index_filter,
                    ocr_corpus >>
    /\ UNCHANGED notGetItemVars

\* the row loop is over; the counters of the token loop are set
StartTokenLoop ==
    /\ gpc = "csv"
    /\ row_pos > Len(rows)
    /\ gpc' = "tok"
    /\ UNCHANGED << rows, row_pos, ocr_text, ocr_coor, seg_classes, text_pos,
                    ocr_tokens, seg_indices, ocr_coor_, seg_classes_,
                    ocr_text_filter, seg_index, seg_index_filter, ocr_corpus >>
    /\ UNCHANGED notGetItemVars

\* a plausible slip: the filtered counter indexes the unfiltered lists
KeptSource_Filtered(si, sif) == sif

\* the index into ocr_coor / seg_classes used for a kept segment:
\* ocr_coor[seg_index], seg_classes[seg_index]
KeptSource(si, sif) == si

\* a plausible slip: a skipped segment advances both counters
SkipFilterIndex_Advance(sif) == sif + 1

\* the filtered counter after a skipped segment (only seg_index += 1)
SkipFilterIndex(sif) == sif

\* a plausible slip: the raw counter is emitted per token
TokenSegIndex_Raw(si, sif) == si

\* the segment index emitted per token: seg_indices.append(seg_index_filter)
TokenSegIndex(si, sif) == sif

\* one iteration of `for text in ocr_text`
TokenizeSegment ==
    /\ gpc = "tok"
    /\ text_pos <= Len(ocr_text)
    /\ LET text == ocr_text[text_pos]
           curr_tokens == Tokenize(text)
       IN  IF Len(text) = 0 \/ IsSpace(text)
           THEN /\ seg_index' = seg_index + 1
                /\ seg_index_filter' = SkipFilterIndex(seg_index_filter)
                /\ UNCHANGED << ocr_tokens, seg_indices, ocr_coor_, seg_classes_,
                                ocr_text_filter >>
           ELSE IF Len(curr_tokens) = 0
           THEN /\ seg_index' = seg_index + 1
                /\ seg_index_filter' = SkipFilterIndex(seg_index_filter)
                /\ UNCHANGED << ocr_tokens, seg_indices, ocr_coor_, seg_classes_,
                                ocr_text_filter >>
           ELSE /\ ocr_text_filter' = Append(ocr_text_filter, text)
                /\ ocr_coor_' = Append(ocr_coor_,
                                       ocr_coor[KeptSource(seg_index, seg_index_filter) + 1])
                /\ seg_classes_' = Append(seg_classes_,
                                          seg_classes[KeptSource(seg_index, seg_index_filter) + 1])
                /\ ocr_tokens' = ocr_tokens \o curr_tokens
                /\ seg_indices' = seg_indices \o
                                    [i \in 1..Len(curr_tokens) |->
                                        TokenSegIndex(seg_index, seg_index_filter)]
                /\ seg_index' = seg_index + 1
                /\ seg_index_filter' = seg_index_filter + 1
    /\ text_pos' = text_pos + 1
    /\ UNCHANGED << gpc, rows, row_pos, ocr_text, ocr_coor, seg_classes, ocr_corpus >>
    /\ UNCHANGED notGetItemVars

\* the token loop is over: convert the tokens to ids and return
ReturnItem ==
    /\ gpc = "tok"
    /\ text_pos > Len(ocr_text)
    /\ ocr_corpus' = ConvertTokensToIds(ocr_tokens)
    /\ gpc' = "done"
    /\ UNCHANGED << rows, row_pos, ocr_text, ocr_coor, seg_classes, text_pos,
                    ocr_tokens, seg_indices, ocr_coor_, seg_classes_,
                    ocr_text_filter, seg_index, seg_index_filter >>
    /\ UNCHANGED notGetItemVars

GetItemNext == ReadRow \/ StartTokenLoop \/ TokenizeSegment \/ ReturnItem

SpecGetItem == GetItemInit /\ [][GetItemNext]_vars

(***************************************************************************)
(* Claims about __getitem__.                                               *)
(***************************************************************************)
\* the tokens emitted with segment index k - 1, in order
TokensOfSegment(k) ==
    LET idx == SelectSeq([i \in 1..Len(seg_indices) |-> i],
                         LAMBDA i : seg_indices[i] = k - 1)
    IN  [j \in 1..Len(idx) |-> ocr_tokens[idx[j]]]

\* the row of the csv that box b was read from (boxes differ row by row)
RowOfBox(b) ==
    CHOOSE r \in 1..Len(rows) :
        << rows[r].left, rows[r].top, rows[r].right, rows[r].bot >> = b

\* C1: when __getitem__ returns a non-empty token list, the largest segment
\* index plus one equals the number of filtered boxes and the number of
\* filtered classes.
C1_TokenIndexInvariant ==
    (gpc = "done" /\ Len(ocr_tokens) > 0) =>
        /\ SeqMax(seg_indices) + 1 = Len(ocr_coor_)
        /\ Len(ocr_coor_) = Len(seg_classes_)

C1_Witness ==
    /\ gpc = "done"
    /\ Len(ocr_tokens) > 0
    /\ SeqMax(seg_indices) = 1
    /\ Len(ocr_text) > Len(ocr_coor_)

\* C2: the segment indices start at 0, never decrease, never jump by more
\* than 1, and have as many distinct values as there are filtered boxes,
\* however many segments were dropped in between.
C2_NoGaps ==
    gpc = "done" =>
        /\ Len(seg_indices) > 0 => seg_indices[1] = 0
        /\ \A i \in 1..(Len(seg_indices) - 1) :
              seg_indices[i + 1] - seg_indices[i] \in {0, 1}
        /\ Cardinality({seg_indices[i] : i \in 1..Len(seg_indices)}) = Len(ocr_coor_)

C2_Witness ==
    /\ gpc = "done"
    /\ Len(ocr_text) = 3
    /\ Len(ocr_coor_) = 2
    /\ Len(seg_indices) > Len(ocr_coor_)
    /\ Len(ocr_text[2]) = 0 \/ IsSpace(ocr_text[2]) \/ Len(Tokenize(ocr_text[2])) = 0

\* C3: the k-th filtered text, box and class come from one and the same row
\* of the csv, the rows follow in their original order, and the tokens with
\* segment index k are the tokens of that row's text.
C3_ConsistentDiscard ==
    gpc = "done" =>
        /\ Len(ocr_text_filter) = Len(ocr_coor_)
        /\ Len(seg_classes_) = Len(ocr_coor_)
        /\ Len(ocr_tokens) = Len(seg_indices)
        /\ \A k \in 1..Len(ocr_coor_) :
              /\ \E r \in 1..Len(rows) :
                    /\ ocr_coor_[k] = << rows[r].left, rows[r].top, rows[r].right, rows[r].bot >>
                    /\ seg_classes_[k] = rows[r].data_class
                    /\ ocr_text_filter[k] = Str(rows[r].text)
              /\ TokensOfSegment(k) = Tokenize(ocr_text_filter[k])
        /\ \A k \in 1..(Len(ocr_coor_) - 1) :
              RowOfBox(ocr_coor_[k]) < RowOfBox(ocr_coor_[k + 1])
        /\ \A i \in 1..Len(seg_indices) : seg_indices[i] + 1 \in 1..Len(ocr_coor_)

C3_Witness ==
    /\ gpc = "done"
    /\ Len(rows) = 3
    /\ IsBlankCell(rows[1].text)
    /\ Len(ocr_text) = 2
    /\ Len(Tokenize(ocr_text[1])) = 0
    /\ Len(ocr_coor_) = 1
    /\ RowOfBox(ocr_coor_[1]) = 3
    /\ Len(ocr_tokens) >= 2

\* C4: a segment of ocr_text is kept exactly when its text is non-empty, has
\* a character that is not whitespace, and has at least one token; the kept
\* texts are in their original order; a skipped segment advances seg_index
\* only, so seg_index counts the segments seen and seg_index_filter the
\* segments kept.
C4_Survivor(text) ==
    /\ Len(text) > 0
    /\ \E i \in 1..Len(text) : text[i] # " "
    /\ Len(Tokenize(text)) >= 1

C4_SurvivalRule ==
    gpc \in {"tok", "done"} =>
        LET seen == SubSeq(ocr_text, 1, text_pos - 1) IN
        /\ ocr_text_filter = SelectSeq(seen, C4_Survivor)
        /\ seg_index = Len(seen)
        /\ seg_index_filter = Len(SelectSeq(seen, C4_Survivor))

C4_Witness ==
    /\ gpc = "done"
    /\ seg_index = 3
    /\ seg_index_filter = 1
    /\ IsSpace(ocr_text[1])
    /\ ocr_text[2] = << "a", " ", "b" >>
    /\ ocr_text[3] = << "ctl" >>

(***************************************************************************)
(* FUNSDDataset._ViBERTgrid_coll_func.  Of an item only ocr_corpus         *)
(* (item[4]) is used by the packing; the other fields are handed on as     *)
(* tuples, unchanged.                                                      *)
(***************************************************************************)
notCollVars == << getitemVars, resizeVars, batchVars, quadVars, forwardVars, ephoieVars, schedulerVars >>
NotCollIdle == GetItemIdle /\ ResizeIdle /\ BatchIdle /\ QuadIdle /\ ForwardIdle /\ EphoieIdle /\ SchedulerIdle

\* ids the tokenizer produces: "[PAD]" (for the literal text), "a", "##b"
CorpusIds == { TokenId("[PAD]"), TokenId("a"), TokenId("##b") }

Corpora == UNION { [1..n -> CorpusIds] : n \in 0..MaxSeqLen }

Batches == UNION { [1..n -> Corpora] : n \in 1..MaxBatch }

\* a plausible slip: the packed length is never below one
SeqLenMax_AtLeastOne(seqs) ==
    LET lens == {Len(seqs[i]) : i \in 1..Len(seqs)} \cup {1}
    IN  CHOOSE m \in lens : \A l \in lens : l <= m

\* max([s.size(0) for s in sequences])
SeqLenMax(seqs) ==
    LET lens == {Len(seqs[i]) : i \in 1..Len(seqs)}
    IN  CHOOSE m \in lens : \A l \in lens : l <= m

\* a plausible slip: padding on the left
PadSequence_Left(seqs) ==
    LET L == SeqLenMax(seqs)
    IN  [i \in 1..Len(seqs) |->
            [t \in 1..L |-> IF t > L - Len(seqs[i]) THEN seqs[i][t - (L - Len(seqs[i]))] ELSE 0]]

\* torch.nn.utils.rnn.pad_sequence(seqs, batch_first=True): padding_value 0
PadSequence(seqs) ==
    LET L == SeqLenMax(seqs)
    IN  [i \in 1..Len(seqs) |->
            [t \in 1..L |-> IF t <= Len(seqs[i]) THEN seqs[i][t] ELSE 0]]

\* torch.zeros(shape).masked_fill_((ocr_corpus != 0), 1)
MaskOf(corpus) ==
    [i \in 1..Len(corpus) |->
        [t \in 1..Len(corpus[i]) |-> IF corpus[i][t] # 0 THEN 1 ELSE 0]]

CollInit ==
    /\ NotCollIdle
    /\ cpc = "collect"
    /\ samples \in Batches
    /\ coll_pos = 1
    /\ coll_corpus = << >>
    /\ padded_corpus = << >>
    /\ mask = << >>

\* one iteration of `for item in samples`
CollectItem ==
    /\ cpc = "collect"
    /\ coll_pos <= Len(samples)
    /\ coll_corpus' = Append(coll_corpus, samples[coll_pos])
    /\ coll_pos' = coll_pos + 1
    /\ UNCHANGED << cpc, samples, padded_corpus, mask >>
    /\ UNCHANGED notCollVars

\* pad the sequences, build the mask and return
PackBatch ==
    /\ cpc = "collect"
    /\ coll_pos > Len(samples)
    /\ padded_corpus' = PadSequence(coll_corpus)
    /\ mask' = MaskOf(padded_corpus')
    /\ cpc' = "done"
    /\ UNCHANGED << samples, coll_pos, coll_corpus >>
    /\ UNCHANGED notCollVars

CollNext == CollectItem \/ PackBatch

SpecColl == CollInit /\ [][CollNext]_vars

(***************************************************************************)
(* Claims about _ViBERTgrid_coll_func.                                     *)
(***************************************************************************)
RowSum(row) == Cardinality({t \in 1..Len(row) : row[t] = 1})

\* C6: in the packed batch, mask[i, t] is 1 exactly at the positions of
\* sequence i (t < len(seq_i)) and 0 at the padding, so the mask of row i
\* sums to len(seq_i) -- also when a sequence holds the id 0 as a token.
C6_MaskMarksRealTokens ==
    cpc = "done" =>
        \A i \in 1..Len(samples) :
            /\ \A t \in 1..Len(mask[i]) :
                  mask[i][t] = (IF t <= Len(samples[i]) THEN 1 ELSE 0)
            /\ RowSum(mask[i]) = Len(samples[i])

\* L is the length of the longest of the sequences
IsMaxLen(L, seqs) ==
    /\ \E i \in 1..Len(seqs) : Len(seqs[i]) = L
    /\ \A i \in 1..Len(seqs) : Len(seqs[i]) <= L

\* C19: the packed token ids have one row per sequence, every row as long
\* as the longest sequence; row i is sequence i, in order, followed by the
\* pad id 0 up to that length.
C19_RightPadded ==
    cpc = "done" =>
        /\ Len(padded_corpus) = Len(samples)
        /\ \A i \in 1..Len(samples) :
              /\ IsMaxLen(Len(padded_corpus[i]), samples)
              /\ \A t \in 1..Len(padded_corpus[i]) :
                    padded_corpus[i][t] =
                        (IF t <= Len(samples[i]) THEN samples[i][t] ELSE 0)

C19_Witness ==
    /\ cpc = "done"
    /\ Len(samples) = 2
    /\ Len(samples[1]) = 1
    /\ Len(samples[2]) = 2
    /\ samples[1][1] # 0
    /\ padded_corpus[1] = << samples[1][1], 0 >>
    /\ padded_corpus[2] = samples[2]

\* C20: when every sequence of the batch is empty the packer still returns:
\* the token ids and the mask have one row per sequence and no column.
C20_AllEmpty ==
    (cpc = "done" /\ \A i \in 1..Len(samples) : Len(samples[i]) = 0) =>
        /\ Len(padded_corpus) = Len(samples)
        /\ Len(mask) = Len(samples)
        /\ \A i \in 1..Len(samples) :
              padded_corpus[i] = << >> /\ mask[i] = << >>

C20_Witness ==
    /\ cpc = "done"
    /\ samples = << << >>, << >> >>
    /\ padded_corpus = << << >>, << >> >>
    /\ mask = << << >>, << >> >>

(***************************************************************************)
(* GeneralizedViBERTgridTransform.resize_and_convert on one sample.        *)
(* Sizes are integers and the scale factor is kept as an exact fraction.   *)
(* The image is modelled by its shape: its pixel values are interpolated   *)
(* and no shape, label or coordinate depends on them.                      *)
(***************************************************************************)
notResizeVars == << getitemVars, collVars, batchVars, quadVars, forwardVars, ephoieVars, schedulerVars >>
NotResizeIdle == GetItemIdle /\ CollIdle /\ BatchIdle /\ QuadIdle /\ ForwardIdle /\ EphoieIdle /\ SchedulerIdle

Min2(a, b) == IF a <= b THEN a ELSE b
Max2(a, b) == IF a >= b THEN a ELSE b

\* math.floor(n / d) for d > 0
FloorDiv(n, d) == n \div d

\* int(n / d) for d > 0: the cast of a float to an integer truncates
TruncDiv(n, d) == IF n >= 0 THEN n \div d ELSE -((-n) \div d)

\* configurations of the transform
TrainMinSizeLists == { << 2, 3 >> }
TestMinSizes == { -1, 0, 3, 6 }
MaxSizes == { 4, 5 }
NumClassesSamples == { 2, 3 }

\* an H x W label map whose values run over 0..m-1
LabelMap(H, W, m) == [y \in 1..H |-> [x \in 1..W |-> (y + x) % m]]

\* an H x W label map whose values run over -1..m-2
ShiftedLabelMap(H, W, m) == [y \in 1..H |-> [x \in 1..W |-> ((y + x) % m) - 1]]

\* label maps handed in for k classes: in range, with a value k, with a value -1
LabelInputs(H, W, k) ==
    { LabelMap(H, W, k), LabelMap(H, W, k + 1), ShiftedLabelMap(H, W, k) }

BoxSamples == { << 2, 1, 2, 1 >>, << 0, 1, 3, 2 >> }
CoorLists == UNION { [1..n -> BoxSamples] : n \in 0..MaxBoxes }

\* a plausible slip: the long-edge cap is left out
ScaleFactor_NoCap(shape, self_min_size, self_max_size) ==
    << self_min_size, Min2(shape[1], shape[2]) >>

\* a plausible slip: the capped ratio is inverted
ScaleFactor_InvertedCap(shape, self_min_size, self_max_size) ==
    LET min_size == Min2(shape[1], shape[2])
        max_size_ == Max2(shape[1], shape[2])
        sf == << self_min_size, min_size >>
    IN  IF max_size_ * sf[1] > self_max_size * sf[2]
        THEN << max_size_, self_max_size >>
        ELSE sf

\* a plausible slip: the cap is applied to the short edge
ScaleFactor_CapShortEdge(shape, self_min_size, self_max_size) ==
    LET min_size == Min2(shape[1], shape[2])
        max_size_ == Max2(shape[1], shape[2])
        sf == << self_min_size, min_size >>
    IN  IF max_size_ * sf[1] > self_max_size * sf[2]
        THEN << self_max_size, min_size >>
        ELSE sf

\* the scale factor of _resize_image for an image of shape `shape` (both
\* edges positive): sf = self_min_size / min_size, and if
\* max_size * sf > self_max_size then self_max_size / max_size
ScaleFactor(shape, self_min_size, self_max_size) ==
    LET min_size == Min2(shape[1], shape[2])
        max_size_ == Max2(shape[1], shape[2])
        sf == << self_min_size, min_size >>
    IN  IF max_size_ * sf[1] > self_max_size * sf[2]
        THEN << self_max_size, max_size_ >>
        ELSE sf

\* a plausible slip: the output size is kept at one pixel or more
InterpolatedSize_AtLeastOne(n, sf) == Max2(1, FloorDiv(n * sf[1], sf[2]))

\* a plausible slip: the output size is rounded to the nearest integer
InterpolatedSize_Round(n, sf) == FloorDiv(2 * n * sf[1] + sf[2], 2 * sf[2])

\* the output size F.interpolate computes from a scale factor
\* (recompute_scale_factor=True): floor(input_size * scale_factor)
InterpolatedSize(n, sf) == FloorDiv(n * sf[1], sf[2])

\* F.interpolate(..., size=(H2, W2), mode='nearest') of a label map:
\* pixel (y, x) of the output is pixel (floor(y * H / H2), floor(x * W / W2))
NearestResize(label, H2, W2) ==
    LET H == Len(label)
        W == IF H = 0 THEN 0 ELSE Len(label[1])
    IN  [y \in 1..H2 |-> [x \in 1..W2 |->
            label[Min2(FloorDiv((y - 1) * H, H2), H - 1) + 1]
                 [Min2(FloorDiv((x - 1) * W, W2), W - 1) + 1]]]

\* coor[:, [0, 2]] *= ratios_height; coor[:, [1, 3]] *= ratios_width; coor.int()
\* with ratios_height = H2 / H and ratios_width = W2 / W
RescaleBox(bbox, orig_shape, new_shape) ==
    << TruncDiv(bbox[1] * new_shape[1], orig_shape[1]),
       TruncDiv(bbox[2] * new_shape[2], orig_shape[2]),
       TruncDiv(bbox[3] * new_shape[1], orig_shape[1]),
       TruncDiv(bbox[4] * new_shape[2], orig_shape[2]) >>

\* a plausible slip: channels counted from one
OneHot_OffByOne(label, k) ==
    [c \in 1..k |-> [y \in 1..Len(label) |-> [x \in 1..Len(label[y]) |->
        IF label[y][x] = c THEN 1 ELSE 0]]]

\* F.one_hot(label, num_classes=k).permute(2, 0, 1)
OneHot(label, k) ==
    [c \in 1..k |-> [y \in 1..Len(label) |-> [x \in 1..Len(label[y]) |->
        IF label[y][x] = c - 1 THEN 1 ELSE 0]]]

\* a plausible slip: only the upper end of the range is checked
OneHotRaises_UpperOnly(label, k) ==
    \E y \in 1..Len(label) : \E x \in 1..Len(label[y]) : label[y][x] >= k

\* F.one_hot raises when a class value is negative or not below num_classes
OneHotRaises(label, k) ==
    \E y \in 1..Len(label) : \E x \in 1..Len(label[y]) :
        label[y][x] < 0 \/ label[y][x] >= k

ResizeInit ==
    /\ NotResizeIdle
    /\ rpc = "start"
    /\ rerr = "none"
    /\ training \in BOOLEAN
    /\ train_min_size_list \in TrainMinSizeLists
    /\ test_min_size \in TestMinSizes
    /\ max_size \in MaxSizes
    /\ num_classes \in NumClassesSamples
    /\ image_shape \in (0..MaxDim) \X (0..MaxDim)
    /\ labels_given \in BOOLEAN
    /\ class_label \in (IF labels_given
                         THEN LabelInputs(image_shape[1], image_shape[2], num_classes)
                         ELSE { << >> })
    /\ pos_neg_label \in (IF labels_given
                           THEN LabelInputs(image_shape[1], image_shape[2], 3)
                           ELSE { << >> })
    /\ coor \in (IF labels_given THEN CoorLists ELSE { << >> })
    /\ class_label_r = << >>
    /\ pos_neg_label_r = << >>
    /\ coor_r = << >>
    /\ class_label_oh = << >>
    /\ pos_neg_label_oh = << >>
    /\ size = 0
    /\ scale_factor = << 0, 1 >>
    /\ resize_shape = << 0, 0 >>

\* lines 219-228: choose the minimum edge, resize the image
ResizeImage ==
    /\ rpc = "start"
    /\ \E index \in 1..Len(train_min_size_list) :
          size' = IF training THEN train_min_size_list[index] ELSE test_min_size
    /\ IF Min2(image_shape[1], image_shape[2]) = 0
       THEN \* self_min_size / min_size divides by zero
            /\ rpc' = "error"
            /\ rerr' = "ZeroDivisionError"
            /\ UNCHANGED << scale_factor, resize_shape >>
       ELSE /\ scale_factor' = ScaleFactor(image_shape, size', max_size)
            /\ LET H2 == InterpolatedSize(image_shape[1], scale_factor')
                   W2 == InterpolatedSize(image_shape[2], scale_factor')
               IN  IF H2 <= 0 \/ W2 <= 0
                   THEN \* F.interpolate refuses an output size that is not positive
                        /\ rpc' = "error"
                        /\ rerr' = "RuntimeError"
                        /\ UNCHANGED resize_shape
                   ELSE /\ resize_shape' = << H2, W2 >>
                        /\ rpc' = IF labels_given THEN "image" ELSE "done"
                        /\ UNCHANGED rerr
    /\ UNCHANGED << training, train_min_size_list, test_min_size, max_size,
                    num_classes, image_shape, labels_given, class_label,
                    pos_neg_label, coor, class_label_r, pos_neg_label_r, coor_r,
                    class_label_oh, pos_neg_label_oh >>
    /\ UNCHANGED notResizeVars

\* lines 230-232: _resize_labels
ResizeLabels ==
    /\ rpc = "image"
    /\ IF coor = << >>
       THEN \* torch.tensor([]) has one dimension: coor[:, [0, 2]] raises
            /\ rpc' = "error"
            /\ rerr' = "IndexError"
            /\ UNCHANGED << class_label_r, pos_neg_label_r, coor_r >>
       ELSE /\ class_label_r' = NearestResize(class_label, resize_shape[1], resize_shape[2])
            /\ pos_neg_label_r' = NearestResize(pos_neg_label, resize_shape[1], resize_shape[2])
            /\ coor_r' = [k \in 1..Len(coor) |->
                              RescaleBox(coor[k], << Len(class_label),
                                                     Len(class_label[1]) >>,
                                         resize_shape)]
            /\ rpc' = "labels"
            /\ UNCHANGED rerr
    /\ UNCHANGED << training, train_min_size_list, test_min_size, max_size,
                    num_classes, image_shape, labels_given, class_label,
                    pos_neg_label, coor, class_label_oh, pos_neg_label_oh, size,
                    scale_factor, resize_shape >>
    /\ UNCHANGED notResizeVars

\* lines 234-239: one-hot encoding of both label maps
OneHotEncode ==
    /\ rpc = "labels"
    /\ IF OneHotRaises(class_label_r, num_classes)
       THEN /\ rpc' = "error"
            /\ rerr' = "RuntimeError"
            /\ UNCHANGED << class_label_oh, pos_neg_label_oh >>
       ELSE IF OneHotRaises(pos_neg_label_r, 3)
       THEN /\ rpc' = "error"
            /\ rerr' = "RuntimeError"
            /\ class_label_oh' = OneHot(class_label_r, num_classes)
            /\ UNCHANGED pos_neg_label_oh
       ELSE /\ class_label_oh' = OneHot(class_label_r, num_classes)
            /\ pos_neg_label_oh' = OneHot(pos_neg_label_r, 3)
            /\ rpc' = "done"
            /\ UNCHANGED rerr
    /\ UNCHANGED << training, train_min_size_list, test_min_size, max_size,
                    num_classes, image_shape, labels_given, class_label,
                    pos_neg_label, coor, class_label_r, pos_neg_label_r, coor_r,
                    size, scale_factor, resize_shape >>
    /\ UNCHANGED notResizeVars

ResizeNext == ResizeImage \/ ResizeLabels \/ OneHotEncode

SpecResize == ResizeInit /\ [][ResizeNext]_vars

(***************************************************************************)
(* Claims about the resizer.                                               *)
(***************************************************************************)
ImageResized == rpc \in {"image", "labels", "done"}
LabelsResized == rpc \in {"labels", "done"} /\ labels_given

\* round(n / d) for n >= 0, d > 0, ties to the even integer
RoundDiv(n, d) ==
    LET q == n \div d
        r == n % d
    IN  IF 2 * r < d THEN q
        ELSE IF 2 * r > d THEN q + 1
        ELSE IF q % 2 = 0 THEN q ELSE q + 1

\* C5: every x-coordinate (left, right) of a rescaled box is the original
\* one times the width ratio W'/W and every y-coordinate (top, bottom) the
\* original one times the height ratio H'/H, cast to an integer.
C5_RescaleByOwnAxis ==
    LabelsResized =>
        \A k \in 1..Len(coor) :
            coor_r[k] =
                << TruncDiv(coor[k][1] * resize_shape[2], image_shape[2]),
                   TruncDiv(coor[k][2] * resize_shape[1], image_shape[1]),
                   TruncDiv(coor[k][3] * resize_shape[2], image_shape[2]),
                   TruncDiv(coor[k][4] * resize_shape[1], image_shape[1]) >>

\* C9: the scale factor is min_edge_target / min(H, W), unless the long edge
\* times that exceeds max_size, and then it is max_size / max(H, W); the one
\* factor gives both output edges.
C9_ScaleRule ==
    ImageResized =>
        LET H == image_shape[1]
            W == image_shape[2]
            s_min == IF H <= W THEN H ELSE W
            s_max == IF H >= W THEN H ELSE W
        IN  /\ IF s_max * size > max_size * s_min
               THEN scale_factor[1] * s_max = max_size * scale_factor[2]
               ELSE scale_factor[1] * s_min = size * scale_factor[2]
            /\ scale_factor[2] > 0
            /\ resize_shape = << InterpolatedSize(H, scale_factor),
                                 InterpolatedSize(W, scale_factor) >>

C9_Witness ==
    /\ rpc = "done"
    /\ labels_given
    /\ image_shape = << 2, 4 >>
    /\ size = 3
    /\ max_size = 5
    /\ scale_factor = << 5, 4 >>

\* C11: for an image with positive area and a positive min_edge_target the
\* long edge times the scale factor, rounded, does not exceed max_size, and
\* neither does the long edge of the resized image.
C11_LongEdgeCap ==
    (rpc # "start" /\ image_shape[1] > 0 /\ image_shape[2] > 0 /\ size > 0) =>
        LET s_max == IF image_shape[1] >= image_shape[2]
                     THEN image_shape[1] ELSE image_shape[2]
        IN  /\ RoundDiv(s_max * scale_factor[1], scale_factor[2]) <= max_size
            /\ ImageResized =>
                  (resize_shape[1] <= max_size /\ resize_shape[2] <= max_size)

C11_Witness ==
    /\ rpc = "done"
    /\ image_shape = << 4, 2 >>
    /\ size = 6
    /\ max_size = 5
    /\ resize_shape = << 5, 2 >>

\* the fraction a is at most the fraction b (denominators positive)
FracLeq(a, b) == a[1] * b[2] <= b[1] * a[2]

\* C12: for a fixed image and max_size the scale factor never decreases
\* when min_edge_target grows: every smaller target has a scale factor at
\* most the one computed, every larger target one at least as large.
C12_ScaleMonotone ==
    (rpc # "start" /\ image_shape[1] > 0 /\ image_shape[2] > 0) =>
        /\ scale_factor = ScaleFactor(image_shape, size, max_size)
        /\ \A t \in (size - 3)..size :
              FracLeq(ScaleFactor(image_shape, t, max_size), scale_factor)
        /\ \A t \in size..(size + 3) :
              FracLeq(scale_factor, ScaleFactor(image_shape, t, max_size))

C12_Witness ==
    /\ rpc = "done"
    /\ image_shape = << 2, 4 >>
    /\ max_size = 5
    /\ size = 3
    /\ ScaleFactor(image_shape, 2, max_size) = << 2, 2 >>
    /\ scale_factor = << 5, 4 >>
    /\ ScaleFactor(image_shape, 4, max_size) = << 5, 4 >>

\* C10 as claimed: the resized image is round(H * scale) x round(W * scale).
C10_RoundedShape ==
    ImageResized =>
        resize_shape = << RoundDiv(image_shape[1] * scale_factor[1], scale_factor[2]),
                          RoundDiv(image_shape[2] * scale_factor[1], scale_factor[2]) >>

\* C10 as amended: the resized image is floor(H * scale) x floor(W * scale):
\* each output edge is the largest integer not above input edge times scale.
C10_FlooredShape ==
    ImageResized =>
        \A a \in 1..2 :
            /\ resize_shape[a] * scale_factor[2] <= image_shape[a] * scale_factor[1]
            /\ image_shape[a] * scale_factor[1] < (resize_shape[a] + 1) * scale_factor[2]

C10_Witness ==
    /\ rpc = "done"
    /\ image_shape = << 3, 4 >>
    /\ size = 2
    /\ resize_shape = << 2, 2 >>
    /\ RoundDiv(image_shape[2] * scale_factor[1], scale_factor[2]) = 3

\* _resize_image raised: no resized shape was produced
ResizerFailed == rpc = "error" /\ resize_shape = << 0, 0 >>

\* _resize_image returned a resized image
ResizerSucceeded == rpc # "start" /\ resize_shape # << 0, 0 >>

C13_ZeroAreaWitness ==
    /\ ResizerFailed
    /\ rerr = "ZeroDivisionError"
    /\ image_shape = << 0, 2 >>
    /\ size = 3

C13_SucceedsWitness ==
    /\ rpc = "done"
    /\ image_shape = << 2, 2 >>
    /\ size = 6
    /\ max_size = 4
    /\ resize_shape = << 4, 4 >>

\* the number of channels of a one-hot tensor that are 1 at pixel (y, x)
ActiveChannels(oh, y, x) == Cardinality({c \in 1..Len(oh) : oh[c][y][x] = 1})

\* oh is the one-hot encoding of an H x W label map with k channels
IsOneHotOf(oh, label, k, H, W) ==
    /\ Len(oh) = k
    /\ \A c \in 1..k :
          /\ Len(oh[c]) = H
          /\ \A y \in 1..H :
                /\ Len(oh[c][y]) = W
                /\ \A x \in 1..W :
                      /\ oh[c][y][x] \in {0, 1}
                      /\ oh[c][y][x] = 1 <=> label[y][x] = c - 1
    /\ \A y \in 1..H : \A x \in 1..W : ActiveChannels(oh, y, x) = 1

\* C14: when resize_and_convert returns labels, the class tensor has shape
\* [num_classes, H, W] and the pos/neg tensor [3, H, W] for the resized
\* H x W; channel c is 1 at (y, x) iff the resized label map is c there and
\* 0 otherwise, so exactly one channel is active at every pixel.
C14_OneHotEncoding ==
    (rpc = "done" /\ labels_given) =>
        /\ IsOneHotOf(class_label_oh, class_label_r, num_classes,
                      resize_shape[1], resize_shape[2])
        /\ IsOneHotOf(pos_neg_label_oh, pos_neg_label_r, 3,
                      resize_shape[1], resize_shape[2])

C14_Witness ==
    /\ rpc = "done"
    /\ labels_given
    /\ num_classes = 3
    /\ resize_shape = << 3, 4 >>
    /\ class_label_r[1] = << 2, 2, 0, 1 >>
    /\ class_label_oh[3][1] = << 1, 1, 0, 0 >>
    /\ pos_neg_label_oh[1][1] = << 0, 0, 1, 0 >>

\* some value of the label map lies outside [0, k)
OutOfRange(label, k) ==
    \E y \in 1..Len(label) : \E x \in 1..Len(label[y]) :
        ~(0 <= label[y][x] /\ label[y][x] < k)

\* C15: once the labels are resized, a value outside [0, num_classes) in the
\* class map, or outside [0, 3) in the pos/neg map, ends the conversion in an
\* error and the offending map is never encoded.
C15_OutOfRangeRaises ==
    (class_label_r # << >> /\ rpc # "labels") =>
        /\ (OutOfRange(class_label_r, num_classes) \/ OutOfRange(pos_neg_label_r, 3))
              => (rpc = "error" /\ rerr = "RuntimeError")
        /\ OutOfRange(class_label_r, num_classes) => class_label_oh = << >>
        /\ OutOfRange(pos_neg_label_r, 3) => pos_neg_label_oh = << >>

C15_Witness ==
    /\ rpc = "error"
    /\ rerr = "RuntimeError"
    /\ num_classes = 2
    /\ class_label_r # << >>
    /\ \E y \in 1..Len(class_label_r) : \E x \in 1..Len(class_label_r[y]) :
          class_label_r[y][x] = -1
    /\ ~ OutOfRange(pos_neg_label_r, 3)
    /\ class_label_oh = << >>

C15_TooLargeWitness ==
    /\ rpc = "error"
    /\ rerr = "RuntimeError"
    /\ ~ OutOfRange(class_label_r, num_classes)
    /\ pos_neg_label_r # << >>
    /\ \E y \in 1..Len(pos_neg_label_r) : \E x \in 1..Len(pos_neg_label_r[y]) :
          pos_neg_label_r[y][x] = 3
    /\ pos_neg_label_oh = << >>

(***************************************************************************)
(* GeneralizedViBERTgridTransform.return_batch.  A tensor is a sequence of *)
(* channels, a channel a sequence of rows, a row a sequence of values.     *)
(***************************************************************************)
notBatchVars == << getitemVars, collVars, resizeVars, quadVars, forwardVars, ephoieVars, schedulerVars >>
NotBatchIdle == GetItemIdle /\ CollIdle /\ ResizeIdle /\ QuadIdle /\ ForwardIdle /\ EphoieIdle /\ SchedulerIdle

\* list(t.shape) of a tensor with at least one channel and one row
Shape(t) == << Len(t), Len(t[1]), Len(t[1][1]) >>

\* spatial shapes << H, W >> of resized samples
ShapeSamples == { << 1, 3 >>, << 2, 2 >>, << 3, 2 >>, << 4, 3 >> }

\* channel counts << C, K, P >> of a sample's image, class-label tensor and
\* pos/neg tensor
ChannelSamples == { << 1, 2, 3 >>, << 2, 2, 3 >>, << 1, 3, 3 >>, << 1, 2, 2 >> }

StrideSamples == { 1, 2, 3 }

\* the image of sample i: every pixel has its own non-zero value
ImageTensor(i, C, H, W) ==
    [c \in 1..C |-> [y \in 1..H |-> [x \in 1..W |-> 1000 * i + 100 * c + 10 * y + x]]]

\* the one-hot label tensor of sample i with k channels
LabelTensor(i, k, H, W) ==
    [c \in 1..k |-> [y \in 1..H |-> [x \in 1..W |->
        IF (y + x + i) % k = c - 1 THEN 1 ELSE 0]]]

ZeroTensor(shape) ==
    [c \in 1..shape[1] |-> [y \in 1..shape[2] |-> [x \in 1..shape[3] |-> 0]]]

\* a plausible slip: the running maximum is never updated
MaxByAxis_First(the_list) == the_list[1]

\* max_by_axis: the per-dimension maximum of a non-empty list of shapes
RECURSIVE MaxByAxis(_)
MaxByAxis(the_list) ==
    IF Len(the_list) = 1 THEN the_list[1]
    ELSE LET maxes == MaxByAxis(SubSeq(the_list, 1, Len(the_list) - 1))
             sublist == the_list[Len(the_list)]
         IN  [index \in 1..Len(maxes) |-> Max2(maxes[index], sublist[index])]

\* a plausible slip: always one more stride
RoundUpToStride_Next(v, stride) == (v \div stride + 1) * stride

\* int(math.ceil(float(v) / stride) * stride)
RoundUpToStride(v, stride) == ((v + stride - 1) \div stride) * stride

\* a plausible slip: the sample is anchored at the bottom-right corner
CopyInto_BottomRight(pad, src) ==
    LET dh == Len(pad[1]) - Len(src[1])
        dw == Len(pad[1][1]) - Len(src[1][1])
    IN  [c \in 1..Len(pad) |-> [y \in 1..Len(pad[c]) |-> [x \in 1..Len(pad[c][y]) |->
            IF c <= Len(src) /\ y > dh /\ x > dw
            THEN src[c][y - dh][x - dw] ELSE pad[c][y][x]]]]

\* pad[: src.shape[0], : src.shape[1], : src.shape[2]].copy_(src), when the
\* slice has the shape of src
CopyInto(pad, src) ==
    [c \in 1..Len(pad) |-> [y \in 1..Len(pad[c]) |-> [x \in 1..Len(pad[c][y]) |->
        IF c <= Len(src) /\ y <= Len(src[c]) /\ x <= Len(src[c][y])
        THEN src[c][y][x] ELSE pad[c][y][x]]]]

\* a plausible slip: any difference in channel count is refused
CopyRaises_Strict(pad, src) == Shape(src)[1] # Shape(pad)[1]

\* the slice pad[: s0, : s1, : s2] is cut to the extent of pad; copy_ raises
\* when src cannot be broadcast to it
CopyRaises(pad, src) ==
    \E d \in 1..3 : Shape(src)[d] > Shape(pad)[d] /\ Shape(src)[d] # 1

BatchInputs ==
    UNION { [1..n -> ShapeSamples \X ChannelSamples] : n \in 0..MaxBatch }

BatchInit ==
    /\ NotBatchIdle
    /\ bpc = "start"
    /\ berr = "none"
    /\ \E inp \in BatchInputs :
          /\ images = [i \in 1..Len(inp) |->
                          ImageTensor(i, inp[i][2][1], inp[i][1][1], inp[i][1][2])]
          /\ class_labels = [i \in 1..Len(inp) |->
                          LabelTensor(i, inp[i][2][2], inp[i][1][1], inp[i][1][2])]
          /\ pos_neg_labels = [i \in 1..Len(inp) |->
                          LabelTensor(i, inp[i][2][3], inp[i][1][1], inp[i][1][2])]
    /\ size_divisible \in StrideSamples
    /\ batch_max_size = << >>
    /\ batch_pos = 1
    /\ batched_imgs = << >>
    /\ batched_class_labels = << >>
    /\ batched_pos_neg_labels = << >>

\* lines 292-315: the common shape and the zero-filled batch tensors
AllocateBatch ==
    /\ bpc = "start"
    /\ IF Len(images) = 0
       THEN \* the_list[0] of an empty list
            /\ bpc' = "error"
            /\ berr' = "IndexError"
            /\ UNCHANGED << batch_max_size, batched_imgs, batched_class_labels,
                            batched_pos_neg_labels >>
       ELSE LET maxes == MaxByAxis([i \in 1..Len(images) |-> Shape(images[i])])
                num_classes_ == Shape(class_labels[1])[1]
                num_pos_neg_channels == Shape(pos_neg_labels[1])[1]
                ms == << maxes[1], RoundUpToStride(maxes[2], size_divisible),
                         RoundUpToStride(maxes[3], size_divisible) >>
            IN  /\ batch_max_size' = ms
                /\ batched_imgs' = [i \in 1..Len(images) |-> ZeroTensor(ms)]
                /\ batched_class_labels' =
                      [i \in 1..Len(class_labels) |->
                          ZeroTensor(<< num_classes_, ms[2], ms[3] >>)]
                /\ batched_pos_neg_labels' =
                      [i \in 1..Len(pos_neg_labels) |->
                          ZeroTensor(<< num_pos_neg_channels, ms[2], ms[3] >>)]
                /\ bpc' = "copy"
                /\ UNCHANGED berr
    /\ UNCHANGED << images, class_labels, pos_neg_labels, size_divisible, batch_pos >>
    /\ UNCHANGED notBatchVars

\* lines 316-326: one iteration of the zip(...) loop
CopySample ==
    /\ bpc = "copy"
    /\ batch_pos <= Len(images)
    /\ LET i == batch_pos IN
         /\ batched_imgs' = [batched_imgs EXCEPT ![i] = CopyInto(@, images[i])]
         /\ IF CopyRaises(batched_class_labels[i], class_labels[i])
            THEN /\ bpc' = "error"
                 /\ berr' = "RuntimeError"
                 /\ UNCHANGED << batched_class_labels, batched_pos_neg_labels, batch_pos >>
            ELSE /\ batched_class_labels' =
                       [batched_class_labels EXCEPT ![i] = CopyInto(@, class_labels[i])]
                 /\ IF CopyRaises(batched_pos_neg_labels[i], pos_neg_labels[i])
                    THEN /\ bpc' = "error"
                         /\ berr' = "RuntimeError"
                         /\ UNCHANGED << batched_pos_neg_labels, batch_pos >>
                    ELSE /\ batched_pos_neg_labels' =
                               [batched_pos_neg_labels EXCEPT
                                   ![i] = CopyInto(@, pos_neg_labels[i])]
                         /\ batch_pos' = batch_pos + 1
                         /\ UNCHANGED << bpc, berr >>
    /\ UNCHANGED << images, class_labels, pos_neg_labels, size_divisible,
                    batch_max_size >>
    /\ UNCHANGED notBatchVars

\* line 328: return
ReturnBatch ==
    /\ bpc = "copy"
    /\ batch_pos > Len(images)
    /\ bpc' = "done"
    /\ UNCHANGED << berr, images, class_labels, pos_neg_labels, size_divisible,
                    batch_max_size, batch_pos, batched_imgs, batched_class_labels,
                    batched_pos_neg_labels >>
    /\ UNCHANGED notBatchVars

BatchNext == AllocateBatch \/ CopySample \/ ReturnBatch

SpecBatch == BatchInit /\ [][BatchNext]_vars

(***************************************************************************)
(* Claims about return_batch.                                              *)
(***************************************************************************)
\* slot `pad` holds `src` in its top-left corner and zero everywhere else
AnchoredTopLeft(pad, src) ==
    \A c \in 1..Len(pad) : \A y \in 1..Len(pad[c]) : \A x \in 1..Len(pad[c][y]) :
        pad[c][y][x] =
            IF c <= Shape(src)[1] /\ y <= Shape(src)[2] /\ x <= Shape(src)[3]
            THEN src[c][y][x] ELSE 0

\* the largest height (d = 2) or width (d = 3) among the images
MaxExtent(d) ==
    CHOOSE m \in {Shape(images[i])[d] : i \in 1..Len(images)} :
        \A i \in 1..Len(images) : Shape(images[i])[d] <= m

\* C7: in a returned batch the slot of every sample holds the sample in its
\* top-left corner [0:H_i, 0:W_i], unshifted, and is zero everywhere else;
\* this holds for the image, the class-label and the pos/neg tensors.
C7_PaddingAnchor ==
    bpc = "done" =>
        /\ Len(batched_imgs) = Len(images)
        /\ Len(batched_class_labels) = Len(images)
        /\ Len(batched_pos_neg_labels) = Len(images)
        /\ \A i \in 1..Len(images) :
              /\ Shape(batched_imgs[i])[2] >= Shape(images[i])[2]
              /\ Shape(batched_imgs[i])[3] >= Shape(images[i])[3]
              /\ AnchoredTopLeft(batched_imgs[i], images[i])
              /\ AnchoredTopLeft(batched_class_labels[i], class_labels[i])
              /\ AnchoredTopLeft(batched_pos_neg_labels[i], pos_neg_labels[i])

C7_Witness ==
    /\ bpc = "done"
    /\ Len(images) = 2
    /\ Shape(images[1])[2] < Shape(images[2])[2]
    /\ Shape(images[1])[3] > Shape(images[2])[3]
    /\ batch_max_size[2] > Shape(images[2])[2]
    /\ batch_max_size[3] > Shape(images[1])[3]

\* C8: for a non-empty batch the image, class-label and pos/neg batch
\* tensors have one common spatial shape [H*, W*]; H* and W* are multiples
\* of the stride, not below the largest height and width, and less than one
\* stride above them (the least such multiples).
C8_StrideAlignedShape ==
    (bpc \in {"copy", "done"}) =>
        /\ Len(images) > 0
        /\ \A d \in 2..3 :
              /\ batch_max_size[d] % size_divisible = 0
              /\ batch_max_size[d] >= MaxExtent(d)
              /\ batch_max_size[d] - size_divisible < MaxExtent(d)
              /\ \A i \in 1..Len(images) :
                    /\ Shape(batched_imgs[i])[d] = batch_max_size[d]
                    /\ Shape(batched_class_labels[i])[d] = batch_max_size[d]
                    /\ Shape(batched_pos_neg_labels[i])[d] = batch_max_size[d]

C8_Witness ==
    /\ bpc = "done"
    /\ Len(images) = 2
    /\ size_divisible = 3
    /\ Shape(images[1]) = << 1, 1, 3 >>
    /\ Shape(images[2]) = << 1, 4, 3 >>
    /\ batch_max_size = << 1, 6, 3 >>

\* the channel counts of the tensors in ts
ChannelCounts(ts) == { Shape(ts[i])[1] : i \in 1..Len(ts) }

\* C16 as claimed: batch construction ends in an error whenever the images,
\* the class-label tensors or the pos/neg tensors of a batch do not all have
\* the same channel count.
C16_AbortsOnChannelMismatch ==
    (/\ bpc \in {"done", "error"}
     /\ \/ Cardinality(ChannelCounts(images)) > 1
        \/ Cardinality(ChannelCounts(class_labels)) > 1
        \/ Cardinality(ChannelCounts(pos_neg_labels)) > 1) => bpc = "error"

\* C16 as amended: a non-empty batch ends in an error exactly when some
\* sample's class-label tensor, or pos/neg tensor, has more channels than
\* that of the first sample.  Images of different channel counts, and label
\* tensors with fewer channels than the first sample's, are zero-padded to
\* the batch channel count instead.
C16_AbortRule ==
    (bpc \in {"done", "error"} /\ Len(images) > 0) =>
        /\ bpc = "error" <=>
              \E i \in 1..Len(images) :
                  \/ Shape(class_labels[i])[1] > Shape(class_labels[1])[1]
                  \/ Shape(pos_neg_labels[i])[1] > Shape(pos_neg_labels[1])[1]
        /\ bpc = "error" => berr = "RuntimeError"
        /\ bpc = "done" =>
              \A i \in 1..Len(images) :
                  /\ \A c \in ChannelCounts(images) : Shape(batched_imgs[i])[1] >= c
                  /\ Shape(batched_class_labels[i])[1] = Shape(class_labels[1])[1]
                  /\ Shape(batched_pos_neg_labels[i])[1] = Shape(pos_neg_labels[1])[1]

C16_Witness ==
    /\ bpc = "done"
    /\ Len(images) = 2
    /\ Shape(images[1])[1] = 1
    /\ Shape(images[2])[1] = 2
    /\ Shape(batched_imgs[1])[1] = 2
    /\ AnchoredTopLeft(batched_imgs[1], images[1])

C16_FewerChannelsWitness ==
    /\ bpc = "done"
    /\ Len(images) = 2
    /\ Shape(class_labels[1])[1] = 3
    /\ Shape(class_labels[2])[1] = 2
    /\ Shape(batched_class_labels[2])[1] = 3

C16_MoreChannelsWitness ==
    /\ bpc = "error"
    /\ berr = "RuntimeError"
    /\ Len(images) = 2
    /\ Shape(class_labels[1])[1] = 2
    /\ Shape(class_labels[2])[1] = 3

\* the permutations of 1..n
Perms(n) == { p \in [1..n -> 1..n] : \A i, j \in 1..n : p[i] = p[j] => i = j }

\* the list ts in the order p
Permuted(ts, p) == [j \in 1..Len(ts) |-> ts[p[j]]]

\* the shape << C, H*, W* >> return_batch gives the batch of imgs
BatchShape(imgs, stride) ==
    LET maxes == MaxByAxis([i \in 1..Len(imgs) |-> Shape(imgs[i])])
    IN  << maxes[1], RoundUpToStride(maxes[2], stride),
           RoundUpToStride(maxes[3], stride) >>

\* the slot return_batch fills for src in a batch of shape `shape`
PaddedSlot(shape, src) == CopyInto(ZeroTensor(shape), src)

\* all tensors of ts have the same channel count, as the samples of one
\* transform have
UniformChannels(ts) == Cardinality(ChannelCounts(ts)) <= 1

\* C18: a returned batch has the shape and the slots that return_batch
\* computes from the samples, and for every reordering p of the samples
\* return_batch computes the same [C, H*, W*]; slot j of the reordered
\* batch, which holds sample p[j], equals slot p[j] of the returned batch,
\* for the images and, the label tensors having one channel count each,
\* for the class-label and pos/neg tensors.
C18_OrderIndependent ==
    bpc = "done" =>
        LET n == Len(images)
            uniform == UniformChannels(class_labels) /\ UniformChannels(pos_neg_labels)
        IN  /\ batch_max_size = BatchShape(images, size_divisible)
            /\ \A p \in Perms(n) :
                  LET ms == BatchShape(Permuted(images, p), size_divisible)
                      k == Shape(Permuted(class_labels, p)[1])[1]
                      q == Shape(Permuted(pos_neg_labels, p)[1])[1]
                  IN  /\ ms = batch_max_size
                      /\ \A j \in 1..n :
                            /\ PaddedSlot(ms, images[p[j]]) = batched_imgs[p[j]]
                            /\ uniform =>
                                  /\ PaddedSlot(<< k, ms[2], ms[3] >>, class_labels[p[j]])
                                        = batched_class_labels[p[j]]
                                  /\ PaddedSlot(<< q, ms[2], ms[3] >>, pos_neg_labels[p[j]])
                                        = batched_pos_neg_labels[p[j]]

C18_Witness ==
    /\ bpc = "done"
    /\ Len(images) = 2
    /\ UniformChannels(class_labels) /\ UniformChannels(pos_neg_labels)
    /\ Shape(images[1]) = << 1, 1, 3 >>
    /\ Shape(images[2]) = << 1, 2, 2 >>
    /\ size_divisible = 2
    /\ BatchShape(<< images[2], images[1] >>, size_divisible) = << 1, 2, 4 >>
    /\ batch_max_size = << 1, 2, 4 >>

(***************************************************************************)
(* quad_to_box (ocr_data.py).  A box is << left, top, right, bottom >>.    *)
(***************************************************************************)
notQuadVars == << getitemVars, collVars, resizeVars, batchVars, forwardVars, ephoieVars, schedulerVars >>
NotQuadIdle == GetItemIdle /\ CollIdle /\ ResizeIdle /\ BatchIdle /\ ForwardIdle /\ EphoieIdle /\ SchedulerIdle

\* corner coordinates of an annotated quad; annotations can be negative
Coords == (0 - MaxCoord)..MaxCoord

Quads == [x1 : Coords, y1 : Coords, x3 : Coords, y3 : Coords]

\* lines 50-55: (max(0, quad["x1"]), max(0, quad["y1"]), quad["x3"], quad["y3"])
ClampedBox(q) == << Max2(0, q.x1), Max2(0, q.y1), q.x3, q.y3 >>

\* a plausible slip: the comparison is reversed
SwapIfLess_Reversed(b, lo, hi) ==
    IF b[hi] > b[lo]
    THEN [b EXCEPT ![hi] = b[lo], ![lo] = b[hi]]
    ELSE b

\* lines 56-61 (lo = 2, hi = 4) and 62-67 (lo = 1, hi = 3):
\* if box[hi] < box[lo], the two entries are exchanged
SwapIfLess(b, lo, hi) ==
    IF b[hi] < b[lo]
    THEN [b EXCEPT ![hi] = b[lo], ![lo] = b[hi]]
    ELSE b

QuadInit ==
    /\ NotQuadIdle
    /\ qpc = "start"
    /\ quad \in Quads
    /\ box = << >>

\* lines 50-55
MakeBox ==
    /\ qpc = "start"
    /\ box' = ClampedBox(quad)
    /\ qpc' = "vertical"
    /\ UNCHANGED quad
    /\ UNCHANGED notQuadVars

\* lines 56-61
SwapVertical ==
    /\ qpc = "vertical"
    /\ box' = SwapIfLess(box, 2, 4)
    /\ qpc' = "horizontal"
    /\ UNCHANGED quad
    /\ UNCHANGED notQuadVars

\* lines 62-68
SwapHorizontal ==
    /\ qpc = "horizontal"
    /\ box' = SwapIfLess(box, 1, 3)
    /\ qpc' = "done"
    /\ UNCHANGED quad
    /\ UNCHANGED notQuadVars

QuadNext == MakeBox \/ SwapVertical \/ SwapHorizontal

SpecQuad == QuadInit /\ [][QuadNext]_vars

(***************************************************************************)
(* Claims about quad_to_box.                                               *)
(***************************************************************************)
\* the box has left <= right and top <= bottom
WellFormed(b) == b[1] <= b[3] /\ b[2] <= b[4]

\* C17: for every quad quad_to_box returns a box with left <= right and
\* top <= bottom whose horizontal and vertical pairs are those of the box
\* built from the quad (top-left clamped at 0), exchanged where they were
\* out of order; a box that was well-formed when built is returned as built.
C17_NormalizedBox ==
    qpc = "done" =>
        LET built == ClampedBox(quad)
        IN  /\ WellFormed(box)
            /\ { box[1], box[3] } = { built[1], built[3] }
            /\ { box[2], box[4] } = { built[2], built[4] }
            /\ WellFormed(built) => box = built

C17_Witness ==
    /\ qpc = "done"
    /\ quad = [x1 |-> 2, y1 |-> -1, x3 |-> 1, y3 |-> -2]
    /\ box = << 1, -2, 2, 0 >>

C17_UnswappedWitness ==
    /\ qpc = "done"
    /\ quad = [x1 |-> -1, y1 |-> 1, x3 |-> 2, y3 |-> 2]
    /\ box = << 0, 1, 2, 2 >>

(***************************************************************************)
(* Claims about a sample without boxes in resize_and_convert.              *)
(***************************************************************************)
\* C21: a sample whose box list is empty (a document in which no segment
\* survived) passes the coordinate rescale of _resize_labels: once its image
\* is resized, the conversion does not end in an IndexError.
C21_EmptySampleAccepted ==
    (labels_given /\ coor = << >> /\ ResizerSucceeded) =>
        ~ (rpc = "error" /\ rerr = "IndexError")

(***************************************************************************)
(* GeneralizedViBERTgridTransform.forward.  An image is modelled by its    *)
(* shape, so image.dim() is the length of the shape; the label maps and    *)
(* boxes of a sample are those resize_and_convert is given.                *)
(***************************************************************************)
notForwardVars == << getitemVars, collVars, resizeVars, batchVars, quadVars, ephoieVars, schedulerVars >>
NotForwardIdle == GetItemIdle /\ CollIdle /\ ResizeIdle /\ BatchIdle /\ QuadIdle /\ EphoieIdle /\ SchedulerIdle

\* size_divisible: int = 32
DefaultSizeDivisible == 32

\* a sample: the shape of its image, the number of values in its class
\* label map, its boxes
Sample(shape, label_classes, boxes) ==
    [shape |-> shape, label_classes |-> label_classes, coor |-> boxes]

\* samples handed to forward: three well-formed ones, a 2-d image, an image
\* of zero height, a sample without boxes, a class map with a value too many
ForwardSamples ==
    { Sample(<< 3, 2, 4 >>, 2, << << 0, 1, 3, 2 >> >>),
      Sample(<< 3, 3, 2 >>, 2, << << 0, 1, 3, 2 >> >>),
      Sample(<< 3, 4, 4 >>, 2, << << 2, 1, 2, 1 >> >>),
      Sample(<< 2, 2 >>, 2, << << 0, 1, 3, 2 >> >>),
      Sample(<< 3, 0, 2 >>, 2, << << 0, 1, 3, 2 >> >>),
      Sample(<< 3, 2, 2 >>, 2, << >>),
      Sample(<< 3, 2, 2 >>, 4, << << 0, 1, 3, 2 >> >>) }

ForwardInputs == UNION { [1..n -> ForwardSamples] : n \in 0..MaxBatch }

Transforms ==
    [training : BOOLEAN, train_min_size_list : TrainMinSizeLists,
     test_min_size : TestMinSizes, max_size : MaxSizes,
     num_classes : NumClassesSamples]

\* a plausible slip: the evaluation size is used in training too
ChosenSize_AlwaysTest(slf, index) == slf.test_min_size

\* lines 219-223: torch_choice(self.train_min_size_list) in training,
\* self.test_min_size otherwise; index is the draw of torch_choice
ChosenSize(slf, index) ==
    IF slf.training THEN slf.train_min_size_list[index] ELSE slf.test_min_size

\* lines 373-386: the per-sample stage of forward on sample s with the
\* drawn size: the exception raised, or the resized shape
PerSample(s, size_, slf) ==
    IF Len(s.shape) # 3
    THEN [err |-> "ValueError", shape |-> s.shape, resize_shape |-> << >>]
    ELSE LET H == s.shape[2]
             W == s.shape[3]
         IN  IF Min2(H, W) = 0
             THEN [err |-> "ZeroDivisionError", shape |-> s.shape, resize_shape |-> << >>]
             ELSE LET sf == ScaleFactor(<< H, W >>, size_, slf.max_size)
                      H2 == InterpolatedSize(H, sf)
                      W2 == InterpolatedSize(W, sf)
                  IN  IF H2 <= 0 \/ W2 <= 0
                      THEN [err |-> "RuntimeError", shape |-> s.shape,
                            resize_shape |-> << >>]
                      ELSE IF s.coor = << >>
                      THEN [err |-> "IndexError", shape |-> s.shape,
                            resize_shape |-> << >>]
                      ELSE IF \/ OneHotRaises(NearestResize(
                                     LabelMap(H, W, s.label_classes), H2, W2),
                                     slf.num_classes)
                              \/ OneHotRaises(NearestResize(
                                     LabelMap(H, W, 3), H2, W2), 3)
                      THEN [err |-> "RuntimeError", shape |-> s.shape,
                            resize_shape |-> << >>]
                      ELSE [err |-> "none", shape |-> << s.shape[1], H2, W2 >>,
                            resize_shape |-> << H2, W2 >>]

\* a plausible slip: the loop stops one sample early
LoopDone_Early(i, n) == i >= n

\* line 367: `for i in range(len(images))` is exhausted
LoopDone(i, n) == i > n

\* a plausible slip: width and height exchanged
ImageSizeOf_Swapped(image_size) == << image_size[2], image_size[1] >>

\* line 404: (image_size[0], image_size[1])
ImageSizeOf(image_size) == << image_size[1], image_size[2] >>

ForwardInit ==
    /\ NotForwardIdle
    /\ fpc = "loop"
    /\ ferr = "none"
    /\ self \in Transforms
    /\ f_samples \in ForwardInputs
    /\ f_images = [i \in 1..Len(f_samples) |-> f_samples[i].shape]
    /\ f_i = 1
    /\ f_sizes = << >>
    /\ image_sizes = << >>
    /\ f_batched = << >>
    /\ image_list = << >>

\* lines 367-396: one iteration of the loop over the samples
ProcessSample ==
    /\ fpc = "loop"
    /\ ~ LoopDone(f_i, Len(f_images))
    /\ \E index \in 1..Len(self.train_min_size_list) :
          LET size_ == ChosenSize(self, index)
              out == PerSample(f_samples[f_i], size_, self)
          IN  /\ f_sizes' = IF Len(f_images[f_i]) # 3
                            THEN f_sizes ELSE Append(f_sizes, size_)
              /\ IF out.err # "none"
                 THEN /\ fpc' = "error"
                      /\ ferr' = out.err
                      /\ UNCHANGED << f_images, f_i, image_sizes >>
                 ELSE /\ f_images' = [f_images EXCEPT ![f_i] = out.shape]
                      /\ image_sizes' = Append(image_sizes, out.resize_shape)
                      /\ f_i' = f_i + 1
                      /\ UNCHANGED << fpc, ferr >>
    /\ UNCHANGED << self, f_samples, f_batched, image_list >>
    /\ UNCHANGED notForwardVars

\* lines 398-399: return_batch on the processed samples
CallReturnBatch ==
    /\ fpc = "loop"
    /\ LoopDone(f_i, Len(f_images))
    /\ IF Len(f_images) = 0
       THEN \* max_by_axis: the_list[0] of an empty list
            /\ fpc' = "error"
            /\ ferr' = "IndexError"
            /\ UNCHANGED f_batched
       ELSE /\ f_batched' =
                  << Len(f_images) >> \o
                  BatchShape([i \in 1..Len(f_images) |-> ZeroTensor(f_images[i])],
                             DefaultSizeDivisible)
            /\ fpc' = "batched"
            /\ UNCHANGED ferr
    /\ UNCHANGED << self, f_samples, f_images, f_i, f_sizes, image_sizes, image_list >>
    /\ UNCHANGED notForwardVars

\* lines 400-408: the ImageList of the batch and the sizes before padding
MakeImageList ==
    /\ fpc = "batched"
    /\ image_list' = [tensors |-> f_batched,
                      image_sizes |-> [k \in 1..Len(image_sizes) |->
                                          ImageSizeOf(image_sizes[k])]]
    /\ fpc' = "done"
    /\ UNCHANGED << ferr, self, f_samples, f_images, f_i, f_sizes, image_sizes,
                    f_batched >>
    /\ UNCHANGED notForwardVars

ForwardNext == ProcessSample \/ CallReturnBatch \/ MakeImageList

SpecForward == ForwardInit /\ [][ForwardNext]_vars

(***************************************************************************)
(* Claims about forward.                                                   *)
(***************************************************************************)
\* C22: the ImageList forward returns has one size per sample, in batch
\* order; the size of sample i is the height and width of its resized
\* image, the floor of its input height and width times one scale factor
\* s / d, and neither exceeds the padded height and width of the batch.
C22_ImageSizesRecorded ==
    fpc = "done" =>
        /\ Len(image_list.image_sizes) = Len(f_samples)
        /\ image_list.tensors[1] = Len(f_samples)
        /\ \A i \in 1..Len(f_samples) :
              LET sz == image_list.image_sizes[i]
                  sf == ScaleFactor(<< f_samples[i].shape[2], f_samples[i].shape[3] >>,
                                    f_sizes[i], self.max_size)
              IN  /\ sz = << f_images[i][2], f_images[i][3] >>
                  /\ \A a \in 1..2 :
                        /\ sz[a] * sf[2] <= f_samples[i].shape[a + 1] * sf[1]
                        /\ f_samples[i].shape[a + 1] * sf[1] < (sz[a] + 1) * sf[2]
                        /\ sz[a] <= image_list.tensors[a + 2]

C22_Witness ==
    /\ fpc = "done"
    /\ ~ self.training
    /\ self.test_min_size = 3
    /\ self.max_size = 5
    /\ Len(f_samples) = 2
    /\ f_samples[1].shape = << 3, 2, 4 >>
    /\ f_samples[2].shape = << 3, 3, 2 >>
    /\ image_list.image_sizes = << << 2, 5 >>, << 4, 3 >> >>
    /\ image_list.tensors = << 2, 3, 32, 32 >>

\* the elements of a list
Elements(k) == { k[j] : j \in 1..Len(k) }

\* C23: every size a sample is resized with is an element of
\* train_min_size_list in training mode and is test_min_size in evaluation
\* mode.
C23_SizeSource ==
    \A i \in 1..Len(f_sizes) :
        /\ self.training => f_sizes[i] \in Elements(self.train_min_size_list)
        /\ ~ self.training => f_sizes[i] = self.test_min_size

\* in training two samples of one batch are resized with different sizes
C23_Witness ==
    /\ fpc = "done"
    /\ self.training
    /\ self.test_min_size = 6
    /\ Len(f_sizes) = 2
    /\ f_sizes[1] = 3
    /\ f_sizes[2] = 2

\* in evaluation both samples are resized with test_min_size
C23_EvalWitness ==
    /\ fpc = "done"
    /\ ~ self.training
    /\ f_sizes = << 3, 3 >>

\* C24: return_batch is called only when every sample has gone through its
\* per-sample stage without an exception; when a sample raises, forward
\* ends there: no batch is built and no ImageList returned.
C24_Barrier ==
    /\ (fpc \in {"batched", "done"} \/ f_batched # << >>) =>
          /\ f_i = Len(f_samples) + 1
          /\ Len(image_sizes) = Len(f_samples)
          /\ \A i \in 1..Len(f_samples) :
                /\ Len(f_samples[i].shape) = 3
                /\ PerSample(f_samples[i], f_sizes[i], self).err = "none"
                /\ f_images[i] = PerSample(f_samples[i], f_sizes[i], self).shape
          /\ ferr = "none"
    /\ (fpc = "error" /\ Len(f_samples) > 0) =>
          /\ f_i <= Len(f_samples)
          /\ ferr \in {"ValueError", "ZeroDivisionError", "RuntimeError", "IndexError"}
          /\ f_batched = << >>
          /\ image_list = << >>

C24_Witness ==
    /\ fpc = "error"
    /\ ferr = "ValueError"
    /\ Len(f_samples) = 2
    /\ f_i = 2
    /\ Len(image_sizes) = 1
    /\ f_batched = << >>
    /\ image_list = << >>

C24_BatchedWitness ==
    /\ fpc = "batched"
    /\ Len(f_samples) = 2
    /\ Len(image_sizes) = 2

(***************************************************************************)
(* EPHOIE_postprocessing (inference_EPHOIE.py).  pred_label enters by the  *)
(* argmax of each row, the only use the returned value makes of it: the    *)
(* scores pick pred_key_dict, which is not returned.  The text of segment  *)
(* k is the one-character string << k >>.                                  *)
(***************************************************************************)
notEphoieVars == << getitemVars, collVars, resizeVars, batchVars, quadVars, forwardVars, schedulerVars >>
NotEphoieIdle ==
    /\ GetItemIdle /\ CollIdle /\ ResizeIdle /\ BatchIdle /\ QuadIdle
    /\ ForwardIdle /\ SchedulerIdle

\* the index of the class "others", which is left out of the results
OthersIndex == 6

EphoieClassCounts == { 2, 3 }

\* the position (from 1) of the element a Python list of n elements gives
\* for index i: negative indices count from the end
PyIndex(i, n) == IF i < 0 THEN n + i + 1 ELSE i + 1

EphoieInit ==
    /\ NotEphoieIdle
    /\ epc = "loop"
    /\ e_num_classes \in EphoieClassCounts
    /\ \E n \in 0..MaxSegments :
          /\ e_pred_class \in [1..n -> 0..(e_num_classes - 1)]
          /\ e_ocr_text = [k \in 1..n |-> << k >>]
    /\ e_seg_index = 1
    /\ pred_all_list = [c \in 1..e_num_classes |-> << >>]
    /\ curr_class_str = << >>
    /\ curr_class_seg_len = 0
    /\ prev_class = -1
    /\ pred_results = << >>

\* lines 29-52: one iteration of the loop over the segments
ProcessSegment ==
    /\ epc = "loop"
    /\ e_seg_index <= Len(e_pred_class)
    /\ LET curr_pred_class == e_pred_class[e_seg_index]
           flushed ==
               IF curr_pred_class # prev_class /\ prev_class >= 0
               THEN [pred_all_list EXCEPT
                        ![PyIndex(prev_class, e_num_classes)] =
                            Append(@, << curr_class_str, curr_class_seg_len >>)]
               ELSE pred_all_list
           str == IF curr_pred_class = prev_class
                  THEN curr_class_str \o e_ocr_text[e_seg_index]
                  ELSE e_ocr_text[e_seg_index]
           seg_len == IF curr_pred_class = prev_class
                      THEN curr_class_seg_len + 1 ELSE 1
       IN  /\ curr_class_str' = str
           /\ curr_class_seg_len' = seg_len
           /\ pred_all_list' =
                 IF e_seg_index = Len(e_pred_class)
                 THEN [flushed EXCEPT
                          ![PyIndex(prev_class, e_num_classes)] =
                              Append(@, << str, seg_len >>)]
                 ELSE flushed
           /\ prev_class' = curr_pred_class
    /\ e_seg_index' = e_seg_index + 1
    /\ UNCHANGED << epc, e_pred_class, e_num_classes, e_ocr_text, pred_results >>
    /\ UNCHANGED notEphoieVars

\* the texts of the candidates recorded for one class
Texts(class_all_result) ==
    [k \in 1..Len(class_all_result) |-> class_all_result[k][1]]

\* lines 54-85: the classes with candidates, "others" left out, with the
\* texts of their candidates
RECURSIVE PredResults(_, _)
PredResults(all_list, n) ==
    IF n = 0 THEN << >>
    ELSE LET before == PredResults(all_list, n - 1)
         IN  IF n - 1 = OthersIndex \/ Len(all_list[n]) = 0
             THEN before
             ELSE Append(before, << n - 1, Texts(all_list[n]) >>)

BuildResults ==
    /\ epc = "loop"
    /\ e_seg_index > Len(e_pred_class)
    /\ pred_results' = PredResults(pred_all_list, Len(pred_all_list))
    /\ epc' = "done"
    /\ UNCHANGED << e_pred_class, e_num_classes, e_ocr_text, e_seg_index,
                    pred_all_list, curr_class_str, curr_class_seg_len, prev_class >>
    /\ UNCHANGED notEphoieVars

EphoieNext == ProcessSegment \/ BuildResults

SpecEphoie == EphoieInit /\ [][EphoieNext]_vars

(***************************************************************************)
(* Claims about EPHOIE_postprocessing.                                     *)
(***************************************************************************)
\* the maximal runs of equal classes among the first k segments, in order:
\* the class of each run and the text of its segments
RECURSIVE MaximalRuns(_, _)
MaximalRuns(cls, k) ==
    IF k = 0 THEN << >>
    ELSE LET before == MaximalRuns(cls, k - 1)
         IN  IF k > 1 /\ cls[k] = cls[k - 1]
             THEN [before EXCEPT ![Len(before)].text = @ \o << k >>]
             ELSE Append(before, [class |-> cls[k], text |-> << k >>])

\* the texts of the maximal runs of class c, in order
RunTextsOfClass(cls, c) ==
    LET IsOfClass(r) == r.class = c
        runs == SelectSeq(MaximalRuns(cls, Len(cls)), IsOfClass)
    IN  [k \in 1..Len(runs) |-> runs[k].text]

\* C25: when the loop over the segments has ended, the candidates recorded
\* for each class are exactly the maximal runs of that class, each once and
\* in order, with the texts of its segments concatenated.
C25_RunsRecordedByClass ==
    epc = "done" =>
        \A c \in 0..(e_num_classes - 1) :
            Texts(pred_all_list[c + 1]) = RunTextsOfClass(e_pred_class, c)

(***************************************************************************)
(* cosine_scheduler (train_val_utils.py).  An array is modelled by its     *)
(* entries' origin, << "warmup", k >> or << "cosine", i >>: the values are *)
(* floats that no length depends on.                                       *)
(***************************************************************************)
notSchedulerVars == << getitemVars, collVars, resizeVars, batchVars, quadVars, forwardVars, ephoieVars >>
NotSchedulerIdle ==
    /\ GetItemIdle /\ CollIdle /\ ResizeIdle /\ BatchIdle /\ QuadIdle
    /\ ForwardIdle /\ EphoieIdle

\* np.linspace(start, stop, num): num entries
Linspace(num) == [k \in 1..num |-> << "warmup", k >>]

\* the schedule over iters = np.arange(n): one entry per i, none for n <= 0
CosinePart(n) == [k \in 1..n |-> << "cosine", k - 1 >>]

SchedulerInit ==
    /\ NotSchedulerIdle
    /\ spc = "start"
    /\ serr = "none"
    /\ epoches \in 0..MaxEpochs
    /\ niter_per_ep \in 0..MaxIterPerEp
    /\ warmup_epochs \in 0..MaxEpochs
    /\ warmup_steps \in -1..(MaxIterPerEp + 1)
    /\ warmup_iters = 0
    /\ warmup_schedule = << >>
    /\ schedule = << >>

\* lines 73-78: the warmup length and the warmup schedule
BuildWarmup ==
    /\ spc = "start"
    /\ warmup_iters' = IF warmup_steps > 0 THEN warmup_steps
                       ELSE warmup_epochs * (niter_per_ep + 1)
    /\ warmup_schedule' = IF warmup_epochs > 0 THEN Linspace(warmup_iters')
                          ELSE << >>
    /\ spc' = "warmup"
    /\ UNCHANGED << serr, epoches, niter_per_ep, warmup_epochs, warmup_steps, schedule >>
    /\ UNCHANGED notSchedulerVars

\* lines 80-89: the cosine part
BuildCosine ==
    /\ spc = "warmup"
    /\ schedule' = CosinePart(epoches * (niter_per_ep + 1) - warmup_iters)
    /\ spc' = "cosine"
    /\ UNCHANGED << serr, epoches, niter_per_ep, warmup_epochs, warmup_steps,
                    warmup_iters, warmup_schedule >>
    /\ UNCHANGED notSchedulerVars

\* lines 91-94: concatenate, assert the length, return
ConcatAndAssert ==
    /\ spc = "cosine"
    /\ schedule' = warmup_schedule \o schedule
    /\ IF Len(schedule') = epoches * (niter_per_ep + 1)
       THEN spc' = "done" /\ UNCHANGED serr
       ELSE spc' = "error" /\ serr' = "AssertionError"
    /\ UNCHANGED << epoches, niter_per_ep, warmup_epochs, warmup_steps,
                    warmup_iters, warmup_schedule >>
    /\ UNCHANGED notSchedulerVars

SchedulerNext == BuildWarmup \/ BuildCosine \/ ConcatAndAssert

SpecScheduler == SchedulerInit /\ [][SchedulerNext]_vars

(***************************************************************************)
(* Claims about cosine_scheduler.                                          *)
(***************************************************************************)
\* C26: for non-negative epoches, niter_per_ep, warmup_epochs and
\* warmup_steps with a warmup no longer than epoches * (niter_per_ep + 1),
\* the call returns a schedule of that length: the assertion does not fail.
C26_AssertionHolds ==
    (/\ spc \in {"done", "error"}
     /\ warmup_steps >= 0
     /\ warmup_iters <= epoches * (niter_per_ep + 1)) =>
        /\ spc = "done"
        /\ Len(schedule) = epoches * (niter_per_ep + 1)

(***************************************************************************)
(* Claims about the clamp of quad_to_box.                                  *)
(***************************************************************************)
\* C27: the left and the top of the box quad_to_box returns are never
\* negative: the clamp of x1 and y1 at 0 survives the exchange with x3, y3.
C27_ClampSurvivesSwap ==
    qpc = "done" => (box[1] >= 0 /\ box[2] >= 0)

====
